---- MODULE Spec2Model ----
(***************************************************************************)
(* A model of the drill load-testing engine: the plan loader's pick        *)
(* validation, the iteration scheduler (buffer_unordered over              *)
(* run_iteration futures), the per-iteration context, the Request action   *)
(* with its shared client pool, and the non-HTTP actions.                  *)
(***************************************************************************)
EXTENDS Integers, Sequences, FiniteSets, TLC

\* ------------------------------------------------------------------------
\* Bounds of the model
\* ------------------------------------------------------------------------
MaxIterations == 2
MaxRampup == 2
\* Report vectors handed to the comparator, reports per vector and baseline
MaxVectors == 2
MaxReports == 2
\* Reports handed to compute_stats
MaxStats == 3
\* Longest array an assertion compares
MaxArray == 2
\* Largest start and stop of a with_items_range
MaxRange == 3
\* Nested parse_from_filepath calls the stack has room for
MaxDepth == 3
\* Most items in the plan of one file
MaxItems == 2

\* ------------------------------------------------------------------------
\* Program constants
\* ------------------------------------------------------------------------
\* request.rs:258  status: 520u16
TransportErrorStatus == 520
\* config.rs:14  const NITERATIONS: i64 = 1
NITERATIONS == 1
\* config.rs:15  const NRAMPUP: i64 = 0
NRAMPUP == 0

NoHolder == 0 - 1
NoAssign == ""

\* Status codes a server can answer with (an HTTP server is free to answer
\* 520 itself), each with the Set-Cookie pairs of the response.
Responses ==
  { [status |-> 200, cookies |-> {<<"s", "abc">>}],
    [status |-> 520, cookies |-> {}] }

ExecOutputs == {"out"}

\* ------------------------------------------------------------------------
\* JSON values held by the context (serde_json::Value), one record shape
\* ------------------------------------------------------------------------
Str(s) == [tag |-> "str", status |-> 0, text |-> s, jar |-> {}]
Num(n) == [tag |-> "num", status |-> n, text |-> "", jar |-> {}]
Obj(s) == [tag |-> "obj", status |-> 0, text |-> s, jar |-> {}]
CookieJar(j) == [tag |-> "obj", status |-> 0, text |-> "cookies", jar |-> j]
\* AssignedRequest { status, body, headers } serialised to a Value
AssignedRequest(st) == [tag |-> "assigned", status |-> st, text |-> "", jar |-> {}]

Report(name, st) == [name |-> name, status |-> st]

\* Context::insert on one iteration's map, a write that never reaches the map
PutLost(c, k, v) == c
Put(c, k, v) == [x \in DOMAIN c \cup {k} |-> IF x = k THEN v ELSE c[x]]

\* What an action wrote, recorded next to the context (history)
Wrote(w, k, v) == [x \in DOMAIN w \cup {k} |-> IF x = k THEN v ELSE w[x]]

\* ------------------------------------------------------------------------
\* Plan documents
\* ------------------------------------------------------------------------
Act(kind, name) ==
  [kind |-> kind, name |-> name, key |-> "", field |-> "", value |-> Str(""),
   seconds |-> 0, assign |-> NoAssign, items |-> <<>>, hasPick |-> FALSE,
   pick |-> 0, shuffle |-> FALSE, domain |-> "", valid |-> TRUE,
   withItems |-> FALSE]

ItemA == [id |-> "1"]
ItemB == [id |-> "2"]
NoItem == [some |-> FALSE, item |-> [id |-> ""]]
SomeItem(it) == [some |-> TRUE, item |-> it]

DomainA == "http://a:80"
DomainB == "https://b:0"
Domains == {DomainA, DomainB}

PlanLogin ==
  << [Act("assign", "set") EXCEPT !.key = "k", !.value = Str("v")],
     [Act("request", "login") EXCEPT !.domain = DomainA, !.assign = "r"],
     [Act("assert", "check") EXCEPT !.key = "r", !.field = "status",
                                    !.value = Num(200)] >>

PlanItems(items, hasPick, pick, shuffle) ==
  << [Act("request", "items") EXCEPT !.domain = DomainA, !.assign = "r",
          !.withItems = TRUE, !.items = items, !.hasPick = hasPick,
          !.pick = pick, !.shuffle = shuffle],
     [Act("exec", "shell") EXCEPT !.assign = "out"] >>

PlanDelay ==
  << [Act("delay", "wait") EXCEPT !.seconds = 1],
     [Act("db_query", "rows") EXCEPT !.assign = "rows"] >>

PlanTwo ==
  << [Act("request", "ping") EXCEPT !.domain = DomainB],
     [Act("request", "home") EXCEPT !.domain = DomainA] >>

PlanBad ==
  << [Act("request", "ping") EXCEPT !.domain = DomainB],
     [Act("request", "bad") EXCEPT !.domain = DomainA, !.valid = FALSE] >>

PlanSet ==
  << [Act("assign", "set") EXCEPT !.key = "k", !.value = Str("v")] >>

\* A placeholder naming the top-level context key k
Placeholder(k) == "{{ " \o k \o " }}"

PlanTemplate ==
  << [Act("assign", "copy") EXCEPT !.key = "k",
                                   !.value = Str(Placeholder("iteration"))] >>

Two == <<ItemA, ItemB>>

PickedPlans ==
  { PlanItems(<<>>, FALSE, 0, FALSE),
    PlanItems(<<ItemA>>, FALSE, 0, FALSE), PlanItems(Two, TRUE, 0 - 1, FALSE),
    PlanItems(Two, TRUE, 0, FALSE), PlanItems(Two, TRUE, 1, FALSE),
    PlanItems(Two, TRUE, 2, FALSE), PlanItems(Two, TRUE, 3, FALSE),
    PlanItems(Two, TRUE, 1, TRUE) }

Plans == {PlanLogin, PlanDelay, PlanTwo, PlanBad, PlanSet, PlanTemplate} \cup PickedPlans

\* ------------------------------------------------------------------------
\* Loader: pick
\* ------------------------------------------------------------------------
\* Request::new: item["pick"].as_i64().unwrap_or(with_items.len())
PickValue(a) == IF a.hasPick THEN a.pick ELSE Len(a.items)

\* Pick::validate / Pick::new: negative or greater than the items panics
PickRefused(value, len) == value < 0 \/ value > len

LoadRefused(d) ==
  \E n \in 1..Len(d) :
    d[n].kind = "request" /\ PickRefused(PickValue(d[n]), Len(d[n].items))

\* The benchmark the loader builds: every pick resolved to Pick::inner
Load(d) == [n \in 1..Len(d) |-> [d[n] EXCEPT !.pick = PickValue(d[n])]]

\* ------------------------------------------------------------------------
\* State
\* ------------------------------------------------------------------------
VARIABLES
  config,         \* Config: iterations, concurrency, rampup
  doc,            \* the plan as written in the document
  benchmark,      \* Benchmark: the loaded action list
  runState,       \* "refused" | "running" | "done" | "aborted"
  panicked,       \* the action whose panic aborted the run, "" if none
  now,            \* the clock, in seconds since the start of the run
  nextIteration,  \* next index the children iterator yields
  inProgress,     \* buffer_unordered's queue of iteration futures
  results,        \* Vec<Vec<Report>> collected so far
  collected,      \* history: the iteration each collected vector came from
  pool,           \* PoolStore: domain key -> client
  poolLock,       \* holder of the pool Mutex
  built,          \* history: clients built per domain key
  requested,      \* history: domain keys requested so far
  pc,             \* per iteration: "idle" | "spawned" | "sleep" | "run" | "done"
  ip,             \* per iteration: index of the current plan action
  ph,             \* per iteration: position inside the current action
  pending,        \* per iteration: with-items still to send for this Request
  vacant,         \* per iteration: the pool entry looked up was vacant
  wake,           \* per iteration: deadline of the pending sleep
  context,        \* per iteration: Context
  reports,        \* per iteration: Reports
  sent,           \* history: requests dispatched by the iteration
  outcome,        \* history: what each dispatch came back with
  trace,          \* history: per action, the context seen and the writes made
  startTime,      \* history: clock value when the iteration built its context
  written,        \* the report file: what write_file was handed, if anything
  cookieSent,     \* history: the Cookie header of each request dispatched
  tagsCall,       \* one use of Tags: new, then should_skip_item
  compareCall,    \* one use of compare_benchmark and checker::compare
  statsCall,      \* one call of compute_stats
  configCall,     \* one call of Config::new: global and the env entries
  assertCall,     \* one comparison of Assert::execute: eq(lhs, rhs)
  rangeCall,      \* one Request over with_items_range: new, then execute
  includeCall     \* one load of a document and the documents it includes

loadVars == <<config, doc, benchmark, panicked>>
schedVars == <<nextIteration, inProgress, results, collected>>
poolVars == <<pool, poolLock, built, requested, vacant>>
histVars == <<sent, outcome, startTime>>
callVars == <<assertCall, rangeCall, includeCall>>
toolVars == <<tagsCall, compareCall, statsCall, configCall, callVars>>
sideVars == <<written, cookieSent, toolVars>>
vars == <<config, doc, benchmark, runState, panicked, now, nextIteration, inProgress,
          results, collected, pool, poolLock, built, requested, pc, ip, ph,
          pending, vacant, wake, context, reports, sent, outcome, trace,
          startTime, written, cookieSent, tagsCall, compareCall, statsCall,
          configCall, assertCall, rangeCall, includeCall>>

\* The iteration indexes of the run: (0..config.iterations), or the single
\* run_iteration(.., 0) of report mode
Iters == IF config.report THEN {0} ELSE 0 .. (config.iterations - 1)

\* ------------------------------------------------------------------------
\* Initial states: a loaded document and an empty pool
\* ------------------------------------------------------------------------
\* Config::new: negative values fall back to defaults, concurrency may not
\* exceed iterations
Configs ==
  { [iterations |-> n, concurrency |-> c, rampup |-> r, report |-> rp] :
      n \in 0..MaxIterations, c \in 0..MaxIterations, r \in 0..MaxRampup,
      rp \in BOOLEAN }

ConfigAccepted(cf) == cf.concurrency <= cf.iterations

\* execute: worker_threads(min(num_cpus::get(), concurrency)) panics on 0
RuntimeRefused(cf) == cf.concurrency = 0

\* No file written, no call of a command-line helper in progress
NoFile == [some |-> FALSE, lines |-> ""]
Idle == [state |-> "idle"]
\* No comparison, range request or document load in progress
CallsIdle ==
  /\ assertCall = Idle
  /\ rangeCall = Idle
  /\ includeCall = Idle

ToolsIdle ==
  /\ tagsCall = Idle
  /\ compareCall = Idle
  /\ statsCall = Idle
  /\ configCall = Idle
  /\ CallsIdle

Scenarios ==
  { <<cf, d>> \in Configs \X Plans :
      /\ ConfigAccepted(cf)
      /\ cf.rampup > 0 => d = PlanSet }

Init ==
  /\ \E sc \in Scenarios :
       /\ config = sc[1]
       /\ doc = sc[2]
       /\ benchmark = IF LoadRefused(sc[2]) THEN <<>> ELSE Load(sc[2])
       /\ runState = IF LoadRefused(sc[2]) THEN "refused"
                     ELSE IF RuntimeRefused(sc[1]) THEN "aborted"
                     ELSE "running"
       /\ panicked = IF ~LoadRefused(sc[2]) /\ RuntimeRefused(sc[1])
                       THEN "runtime" ELSE ""
  /\ written = NoFile
  /\ cookieSent = [i \in Iters |-> <<>>]
  /\ ToolsIdle
  /\ now = 0
  /\ nextIteration = 0
  /\ inProgress = {}
  /\ results = <<>>
  /\ collected = <<>>
  /\ pool = <<>>
  /\ poolLock = NoHolder
  /\ built = [d \in Domains |-> 0]
  /\ requested = {}
  /\ pc = [i \in Iters |-> IF config.report THEN "spawned" ELSE "idle"]
  /\ ip = [i \in Iters |-> 1]
  /\ ph = [i \in Iters |-> "next"]
  /\ pending = [i \in Iters |-> <<>>]
  /\ vacant = [i \in Iters |-> FALSE]
  /\ wake = [i \in Iters |-> 0]
  /\ context = [i \in Iters |-> <<>>]
  /\ reports = [i \in Iters |-> <<>>]
  /\ sent = [i \in Iters |-> 0]
  /\ outcome = [i \in Iters |-> <<>>]
  /\ trace = [i \in Iters |-> <<>>]
  /\ startTime = [i \in Iters |-> 0]

\* ------------------------------------------------------------------------
\* Scheduler: stream::iter(children).buffer_unordered(concurrency).collect()
\* ------------------------------------------------------------------------
CanSpawnUnbounded == TRUE
\* BufferUnordered::poll_next: while in_progress_queue.len() < max
CanSpawn == Cardinality(inProgress) < config.concurrency

Spawn ==
  /\ runState = "running"
  /\ ~config.report
  /\ CanSpawn
  /\ nextIteration < config.iterations
  /\ inProgress' = inProgress \cup {nextIteration}
  /\ pc' = [pc EXCEPT ![nextIteration] = "spawned"]
  /\ nextIteration' = nextIteration + 1
  /\ UNCHANGED <<loadVars, sideVars, runState, now, results, collected, poolVars, ip, ph,
                 pending, wake, context, reports, histVars, trace>>

\* run_iteration: the context every iteration starts from
SeedContext(i) ==
  [k \in {"iteration", "urls", "global"} |->
     IF k = "iteration" THEN Str(ToString(i)) ELSE Obj(k)]

\* run_iteration: let delay = config.rampup / config.iterations
RampupDelay(cf) == cf.rampup \div cf.iterations

BuildContext(i) ==
  /\ context' = [context EXCEPT ![i] = SeedContext(i)]
  /\ startTime' = [startTime EXCEPT ![i] = now]
  /\ pc' = [pc EXCEPT ![i] = "run"]

\* First poll of run_iteration: the rampup sleep, or straight to the plan.
\* The division is by iterations >= 1: a run with iterations = 0 has
\* concurrency = 0 and never gets past the runtime builder.
IterStart(i) ==
  /\ runState = "running"
  /\ pc[i] = "spawned"
  /\ IF config.rampup > 0
       THEN /\ wake' = [wake EXCEPT ![i] = now + RampupDelay(config) * i]
            /\ pc' = [pc EXCEPT ![i] = "sleep"]
            /\ UNCHANGED <<context, startTime>>
       ELSE /\ BuildContext(i)
            /\ UNCHANGED wake
  /\ UNCHANGED <<loadVars, sideVars, runState, now, schedVars, poolVars, ip, ph, pending,
                 reports, sent, outcome, trace>>

\* The rampup sleep is over
IterWake(i) ==
  /\ runState = "running"
  /\ pc[i] = "sleep"
  /\ now >= wake[i]
  /\ BuildContext(i)
  /\ wake' = [wake EXCEPT ![i] = 0]
  /\ UNCHANGED <<loadVars, sideVars, runState, now, schedVars, poolVars, ip, ph, pending,
                 reports, sent, outcome, trace>>

Sleeping(i) == pc[i] = "sleep" \/ (pc[i] = "run" /\ ph[i] = "delay")

\* Time passes while a timer is pending
Tick ==
  /\ runState = "running"
  /\ \E i \in Iters : Sleeping(i) /\ now < wake[i]
  /\ now' = now + 1
  /\ UNCHANGED <<loadVars, sideVars, runState, schedVars, poolVars, pc, ip, ph, pending,
                 wake, context, reports, histVars, trace>>

CollectMerged(res, v) == IF res = <<>> THEN <<v>> ELSE <<res[1] \o v>>
\* collect::<Vec<_>>(): each future's output is one element of the result
Collect(res, v) == Append(res, v)

\* run_iteration returns its reports; collect pushes them
IterFinish(i) ==
  /\ runState = "running"
  /\ ~config.report
  /\ pc[i] = "run"
  /\ ph[i] = "next"
  /\ ip[i] > Len(benchmark)
  /\ pc' = [pc EXCEPT ![i] = "done"]
  /\ inProgress' = inProgress \ {i}
  /\ results' = Collect(results, reports[i])
  /\ collected' = Append(collected, i)
  /\ UNCHANGED <<loadVars, sideVars, runState, now, nextIteration, poolVars, ip, ph,
                 pending, wake, context, reports, histVars, trace>>

\* The buffered stream ends: the children iterator was polled to its end
\* and the queue is empty
RunComplete ==
  /\ runState = "running"
  /\ ~config.report
  /\ CanSpawn
  /\ nextIteration = config.iterations
  /\ inProgress = {}
  /\ runState' = "done"
  /\ UNCHANGED <<loadVars, sideVars, now, schedVars, poolVars, pc, ip, ph, pending, wake,
                 context, reports, histVars, trace>>

\* impl Display for Report (the duration is not part of the model)
ReportLine(r) ==
  "\n- name: " \o r.name \o "\n  status: " \o ToString(r.status) \o "\n"

RECURSIVE join(_, _)
\* join(l, sep): the elements' to_string, separated by sep
join(l, sep) ==
  IF l = <<>> THEN ""
  ELSE IF Len(l) = 1 THEN ReportLine(l[1])
  ELSE ReportLine(l[1]) \o sep \o join(Tail(l), sep)

\* Report mode: run_iteration(.., 0) returns, its reports are written to the
\* report file and execute returns an empty result
ReportFinish(i) ==
  /\ runState = "running"
  /\ config.report
  /\ pc[i] = "run"
  /\ ph[i] = "next"
  /\ ip[i] > Len(benchmark)
  /\ pc' = [pc EXCEPT ![i] = "done"]
  /\ written' = [some |-> TRUE, lines |-> join(reports[i], "")]
  /\ runState' = "done"
  /\ UNCHANGED <<loadVars, cookieSent, toolVars, now, schedVars, poolVars, ip,
                 ph, pending, wake, context, reports, histVars, trace>>

\* ------------------------------------------------------------------------
\* Plan actions: for item in benchmark.iter() { item.execute(...).await }
\* ------------------------------------------------------------------------
AtAction(i, kind) ==
  /\ runState = "running"
  /\ pc[i] = "run"
  /\ ph[i] = "next"
  /\ ip[i] <= Len(benchmark)
  /\ benchmark[ip[i]].kind = kind

Cur(i) == benchmark[ip[i]]

\* context.insert(key, value) on the context of every iteration at once
InsertShared(ctx, i, k, v) == [j \in DOMAIN ctx |-> Put(ctx[j], k, v)]
\* context.insert(key, value) on the context the iteration was handed
Insert(ctx, i, k, v) == [ctx EXCEPT ![i] = Put(@, k, v)]

\* One trace entry for an action that begins and ends in one step
Entry(i, w) == [idx |-> ip[i], seen |-> context[i], wrote |-> w, closed |-> TRUE]
\* The entry of an action that suspends before it ends
OpenEntry(i) == [idx |-> ip[i], seen |-> context[i], wrote |-> <<>>, closed |-> FALSE]

WroteLast(tr, k, v) ==
  [tr EXCEPT ![Len(tr)] = [@ EXCEPT !.wrote = Wrote(@, k, v)]]
CloseLast(tr) == [tr EXCEPT ![Len(tr)] = [@ EXCEPT !.closed = TRUE]]

Advance(i) ==
  /\ ip' = [ip EXCEPT ![i] = @ + 1]
  /\ ph' = [ph EXCEPT ![i] = "next"]

\* Assign::execute: context.insert(key, json!(value))
StepAssign(i) ==
  /\ AtAction(i, "assign")
  /\ context' = Insert(context, i, Cur(i).key, Cur(i).value)
  /\ trace' = [trace EXCEPT ![i] =
                 Append(@, Entry(i, Wrote(<<>>, Cur(i).key, Cur(i).value)))]
  /\ Advance(i)
  /\ UNCHANGED <<loadVars, sideVars, runState, now, schedVars, poolVars, pc, pending,
                 wake, reports, histVars>>

\* Interpolator::resolve of "{{ key }}": a missing path is fatal
ResolveFails(c, a) == a.key \notin DOMAIN c

\* The string the interpolator renders for the asserted path
Resolved(c, a) ==
  IF a.field = "status" THEN Num(c[a.key].status) ELSE Str(c[a.key].text)

\* eq(lhs, rhs): numbers compare as f64, strings by text
AssertEq(lhs, rhs) ==
  IF lhs.tag = "num" THEN lhs.status = rhs.status ELSE lhs.text = rhs.text

\* Assert::execute: panics on a mismatch
StepAssert(i) ==
  /\ AtAction(i, "assert")
  /\ IF ResolveFails(context[i], Cur(i))
        \/ ~AssertEq(Cur(i).value, Resolved(context[i], Cur(i)))
       THEN /\ runState' = "aborted"
            /\ panicked' = "assert"
            /\ UNCHANGED <<ip, ph, trace>>
       ELSE /\ trace' = [trace EXCEPT ![i] = Append(@, Entry(i, <<>>))]
            /\ Advance(i)
            /\ UNCHANGED <<runState, panicked>>
  /\ UNCHANGED <<config, doc, benchmark, sideVars, now, schedVars, poolVars, pc, pending,
                 wake, context, reports, histVars>>

\* Exec::execute: run the command, store its trimmed stdout under assign
StepExec(i) ==
  /\ AtAction(i, "exec")
  /\ \E out \in ExecOutputs :
       IF Cur(i).assign # NoAssign
         THEN /\ context' = Insert(context, i, Cur(i).assign, Str(out))
              /\ trace' = [trace EXCEPT ![i] =
                   Append(@, Entry(i, Wrote(<<>>, Cur(i).assign, Str(out))))]
         ELSE /\ trace' = [trace EXCEPT ![i] = Append(@, Entry(i, <<>>))]
              /\ UNCHANGED context
  /\ Advance(i)
  /\ UNCHANGED <<loadVars, sideVars, runState, now, schedVars, poolVars, pc, pending,
                 wake, reports, histVars>>

\* DbQuery::execute: a failed query panics, rows are stored under assign
StepDbQuery(i) ==
  /\ AtAction(i, "db_query")
  /\ \E ok \in BOOLEAN :
       IF ok
         THEN /\ IF Cur(i).assign # NoAssign
                   THEN /\ context' =
                             Insert(context, i, Cur(i).assign, Obj("rows"))
                        /\ trace' = [trace EXCEPT ![i] = Append(@,
                             Entry(i, Wrote(<<>>, Cur(i).assign, Obj("rows"))))]
                   ELSE /\ trace' = [trace EXCEPT ![i] = Append(@, Entry(i, <<>>))]
                        /\ UNCHANGED context
              /\ Advance(i)
              /\ UNCHANGED <<runState, panicked>>
         ELSE /\ runState' = "aborted"
              /\ panicked' = "db_query"
              /\ UNCHANGED <<context, trace, ip, ph>>
  /\ UNCHANGED <<config, doc, benchmark, sideVars, now, schedVars, poolVars, pc, pending,
                 wake, reports, histVars>>

\* Delay::execute: sleep(Duration::from_secs(seconds)).await
DelayBegin(i) ==
  /\ AtAction(i, "delay")
  /\ wake' = [wake EXCEPT ![i] = now + Cur(i).seconds]
  /\ ph' = [ph EXCEPT ![i] = "delay"]
  /\ trace' = [trace EXCEPT ![i] = Append(@, OpenEntry(i))]
  /\ UNCHANGED <<loadVars, sideVars, runState, now, schedVars, poolVars, pc, ip, pending,
                 context, reports, histVars>>

DelayEnd(i) ==
  /\ runState = "running"
  /\ pc[i] = "run"
  /\ ph[i] = "delay"
  /\ now >= wake[i]
  /\ wake' = [wake EXCEPT ![i] = 0]
  /\ trace' = [trace EXCEPT ![i] = CloseLast(@)]
  /\ Advance(i)
  /\ UNCHANGED <<loadVars, sideVars, runState, now, schedVars, poolVars, pc, pending,
                 context, reports, histVars>>

\* ------------------------------------------------------------------------
\* Request
\* ------------------------------------------------------------------------
Perms(n) ==
  { p \in [1..n -> 1..n] : \A a, b \in 1..n : a # b => p[a] # p[b] }

\* with_items.shuffle(&mut rng): any order of the items
Shuffled(items) ==
  { [k \in 1..Len(items) |-> items[p[k]]] : p \in Perms(Len(items)) }

\* with_items.iter().take(self.pick.inner())
Take(items, n) == [k \in 1..(IF n < Len(items) THEN n ELSE Len(items)) |-> SomeItem(items[k])]

InRequest(i, phase) ==
  /\ runState = "running"
  /\ pc[i] = "run"
  /\ ph[i] = phase

\* Request::execute: one request without item, or one per item taken
RequestExecute(i) ==
  /\ AtAction(i, "request")
  /\ \E order \in (IF Cur(i).shuffle THEN Shuffled(Cur(i).items)
                                     ELSE {Cur(i).items}) :
       LET todo == IF Cur(i).items = <<>> THEN <<NoItem>>
                                          ELSE Take(order, Cur(i).pick)
       IN  /\ pending' = [pending EXCEPT ![i] = todo]
           /\ IF todo = <<>>
                THEN /\ trace' = [trace EXCEPT ![i] = Append(@, Entry(i, <<>>))]
                     /\ Advance(i)
                ELSE /\ trace' = [trace EXCEPT ![i] = Append(@, OpenEntry(i))]
                     /\ ph' = [ph EXCEPT ![i] = "send"]
                     /\ UNCHANGED ip
  /\ UNCHANGED <<loadVars, sideVars, runState, now, schedVars, poolVars, pc, wake,
                 context, reports, histVars>>

RequestAcceptedAny(a) == TRUE
\* send_request: the base names an entry of context["urls"], Url::parse
\* succeeds and the method is one of the six known ones; else it panics
RequestAccepted(a) == a.valid

\* send_request: Url::parse(..).expect, unknown method, missing base url
RequestAbort(i) ==
  /\ InRequest(i, "send")
  /\ ~RequestAccepted(Cur(i))
  /\ runState' = "aborted"
  /\ panicked' = "request"
  /\ UNCHANGED <<config, doc, benchmark, sideVars, now, schedVars, poolVars, pc, ip, ph,
                 pending, wake, context, reports, histVars, trace>>

RECURSIVE InjectItem(_, _, _, _)
\* send_request: for (key, val) in map { context.insert(key, String(val)) }
InjectItem(ctx, i, item, keys) ==
  IF keys = {} THEN ctx
  ELSE LET k == CHOOSE x \in keys : TRUE
       IN  InjectItem(Insert(ctx, i, k, Str(item[k])), i, item, keys \ {k})

RECURSIVE WroteItem(_, _, _)
WroteItem(tr, item, keys) ==
  IF keys = {} THEN tr
  ELSE LET k == CHOOSE x \in keys : TRUE
       IN  WroteItem(WroteLast(tr, k, Str(item[k])), item, keys \ {k})

\* HashMap entry(domain).or_insert_with(..) on a vacant entry
PoolInsert(store, d, client) ==
  [x \in DOMAIN store \cup {d} |-> IF x = d THEN client ELSE store[x]]

LockIgnored == TRUE
\* pool.lock(): the Mutex is free
LockAvailable == poolLock = NoHolder

\* send_request up to pool.lock() and pool2.entry(domain)
RequestLock(i) ==
  /\ InRequest(i, "send")
  /\ RequestAccepted(Cur(i))
  /\ LockAvailable
  /\ LET sub == Head(pending[i])
     IN  IF sub.some
           THEN /\ context' = InjectItem(context, i, sub.item, DOMAIN sub.item)
                /\ trace' = [trace EXCEPT ![i] =
                               WroteItem(@, sub.item, DOMAIN sub.item)]
           ELSE UNCHANGED <<context, trace>>
  /\ requested' = requested \cup {Cur(i).domain}
  /\ poolLock' = i
  /\ vacant' = [vacant EXCEPT ![i] = Cur(i).domain \notin DOMAIN pool]
  /\ ph' = [ph EXCEPT ![i] = "locked"]
  /\ UNCHANGED <<loadVars, sideVars, runState, now, schedVars, pool, built, pc, ip,
                 pending, wake, reports, histVars>>

\* impl Display for serde_json::Value on a Value::String: the JSON text of
\* the string, between double quotes
DisplayValue(v) == "\"" \o v \o "\""

\* Cookie names in the order the cookies Map iterates them (sorted by key)
CookieNames == <<"s", "t">>

RECURSIVE JoinCookies(_, _)
\* cookies.iter().map(|(key, value)| format!("{key}={value}")).join(";")
JoinCookies(jar, names) ==
  IF names = <<>> THEN ""
  ELSE LET rest == JoinCookies(jar, Tail(names))
           here == {p \in jar : p[1] = Head(names)}
       IN  IF here = {} THEN rest
           ELSE LET p == CHOOSE q \in here : TRUE
                    kv == p[1] \o "=" \o DisplayValue(p[2])
                IN  IF rest = "" THEN kv ELSE kv \o ";" \o rest

\* send_request: the Cookie header, set when the context has "cookies"
CookieHeader(c) ==
  IF "cookies" \in DOMAIN c
    THEN [present |-> TRUE, value |-> JoinCookies(c["cookies"].jar, CookieNames)]
    ELSE [present |-> FALSE, value |-> ""]

GuardKept(lock, i) == lock
\* the MutexGuard pool2 goes out of scope at the end of the block
GuardDropped(lock, i) == IF lock = i THEN NoHolder ELSE lock

\* .or_insert_with(|| ClientBuilder::default()...build().unwrap()); the
\* request is built from the client, the guard is dropped, the headers are
\* set and client.execute(request).await suspends the iteration
RequestEntry(i) ==
  /\ InRequest(i, "locked")
  /\ IF vacant[i]
       THEN /\ built' = [built EXCEPT ![Cur(i).domain] = @ + 1]
            /\ pool' = PoolInsert(pool, Cur(i).domain, built'[Cur(i).domain])
       ELSE UNCHANGED <<pool, built>>
  /\ vacant' = [vacant EXCEPT ![i] = FALSE]
  /\ poolLock' = GuardDropped(poolLock, i)
  /\ sent' = [sent EXCEPT ![i] = @ + 1]
  /\ cookieSent' = [cookieSent EXCEPT ![i] = Append(@, CookieHeader(context[i]))]
  /\ ph' = [ph EXCEPT ![i] = "await"]
  /\ UNCHANGED <<loadVars, written, toolVars, runState, now, schedVars, requested, pc, ip,
                 pending, wake, context, reports, outcome, startTime, trace>>

\* Request::execute: the next item, or the action is over
Continue(i, tr) ==
  IF Len(pending[i]) > 1
    THEN /\ pending' = [pending EXCEPT ![i] = Tail(@)]
         /\ ph' = [ph EXCEPT ![i] = "send"]
         /\ trace' = [trace EXCEPT ![i] = tr]
         /\ UNCHANGED ip
    ELSE /\ pending' = [pending EXCEPT ![i] = <<>>]
         /\ trace' = [trace EXCEPT ![i] = CloseLast(tr)]
         /\ Advance(i)

\* cookies.insert(cookie.name(), cookie.value()) for each response cookie
MergeCookies(jar, cs) ==
  {p \in jar : \A q \in cs : q[1] # p[1]} \cup cs

JarOf(c) == IF "cookies" \in DOMAIN c THEN c["cookies"].jar ELSE {}

\* execute_one_request, Some(response): the report carries the status
ResponseReport(name, st) == Report(name, st)

\* execute_one_request, Some(response)
RequestResponse(i) ==
  /\ InRequest(i, "await")
  /\ \E r \in Responses :
       LET jar == CookieJar(MergeCookies(JarOf(context[i]), r.cookies))
           c1 == IF r.cookies # {}
                   THEN Insert(context, i, "cookies", jar) ELSE context
           t1 == IF r.cookies # {}
                   THEN WroteLast(trace[i], "cookies", jar) ELSE trace[i]
           c2 == IF Cur(i).assign # NoAssign
                   THEN Insert(c1, i, Cur(i).assign, AssignedRequest(r.status))
                   ELSE c1
           t2 == IF Cur(i).assign # NoAssign
                   THEN WroteLast(t1, Cur(i).assign, AssignedRequest(r.status))
                   ELSE t1
       IN  /\ reports' = [reports EXCEPT ![i] =
                            Append(@, ResponseReport(Cur(i).name, r.status))]
           /\ outcome' = [outcome EXCEPT ![i] =
                            Append(@, [resp |-> TRUE, status |-> r.status,
                                       cookies |-> r.cookies])]
           /\ context' = c2
           /\ Continue(i, t2)
  /\ UNCHANGED <<loadVars, sideVars, runState, now, schedVars, poolVars, pc, wake, sent,
                 startTime>>

FailureReportOther(name) == Report(name, 500)
\* execute_one_request, None: Report { status: 520u16 }
FailureReport(name) == Report(name, TransportErrorStatus)

PushFailureDropped(rs, name) == rs
\* execute_one_request, None: reports.push(..)
PushFailure(rs, name) == Append(rs, FailureReport(name))

FailureIsFatalAlways == TRUE
\* send_request, Err(e): logs and returns (None, duration_ms), no panic
FailureIsFatal == FALSE

\* execute_one_request, None: the dispatch got no response
RequestFail(i) ==
  /\ InRequest(i, "await")
  /\ reports' = [reports EXCEPT ![i] = PushFailure(@, Cur(i).name)]
  /\ outcome' = [outcome EXCEPT ![i] =
                    Append(@, [resp |-> FALSE, status |-> 0, cookies |-> {}])]
  /\ IF FailureIsFatal
       THEN /\ runState' = "aborted"
            /\ panicked' = "transport"
            /\ UNCHANGED <<pending, ph, ip, trace>>
       ELSE /\ Continue(i, trace[i])
            /\ UNCHANGED <<runState, panicked>>
  /\ UNCHANGED <<config, doc, benchmark, sideVars, now, schedVars, poolVars, pc, wake,
                 context, sent, startTime>>

\* ------------------------------------------------------------------------
\* Specification
\* ------------------------------------------------------------------------
Next ==
  \/ Spawn
  \/ Tick
  \/ RunComplete
  \/ \E i \in Iters : IterStart(i)
  \/ \E i \in Iters : IterWake(i)
  \/ \E i \in Iters : IterFinish(i)
  \/ \E i \in Iters : ReportFinish(i)
  \/ \E i \in Iters : StepAssign(i)
  \/ \E i \in Iters : StepAssert(i)
  \/ \E i \in Iters : StepExec(i)
  \/ \E i \in Iters : StepDbQuery(i)
  \/ \E i \in Iters : DelayBegin(i)
  \/ \E i \in Iters : DelayEnd(i)
  \/ \E i \in Iters : RequestExecute(i)
  \/ \E i \in Iters : RequestAbort(i)
  \/ \E i \in Iters : RequestLock(i)
  \/ \E i \in Iters : RequestEntry(i)
  \/ \E i \in Iters : RequestResponse(i)
  \/ \E i \in Iters : RequestFail(i)

Spec == Init /\ [][Next]_vars

\* The runtime keeps polling: as long as some future of the run can make a
\* step (an iteration is ready, a timer is due, a response has arrived, the
\* stream can yield), one is made
SpecFair == Spec /\ WF_vars(Next)

\* ------------------------------------------------------------------------
\* The command-line helpers around the run, each checked on its own: the
\* engine is not started
\* ------------------------------------------------------------------------
engineVars ==
  <<loadVars, runState, now, schedVars, poolVars, pc, ip, ph, pending, wake,
    context, reports, histVars, trace, written, cookieSent>>

EngineIdle ==
  /\ config = [iterations |-> 0, concurrency |-> 0, rampup |-> 0,
               report |-> FALSE]
  /\ doc = <<>>
  /\ benchmark = <<>>
  /\ runState = "idle"
  /\ panicked = ""
  /\ now = 0
  /\ nextIteration = 0
  /\ inProgress = {}
  /\ results = <<>>
  /\ collected = <<>>
  /\ pool = <<>>
  /\ poolLock = NoHolder
  /\ built = [d \in Domains |-> 0]
  /\ requested = {}
  /\ pc = <<>>
  /\ ip = <<>>
  /\ ph = <<>>
  /\ pending = <<>>
  /\ vacant = <<>>
  /\ wake = <<>>
  /\ context = <<>>
  /\ reports = <<>>
  /\ sent = <<>>
  /\ outcome = <<>>
  /\ trace = <<>>
  /\ startTime = <<>>
  /\ written = NoFile
  /\ cookieSent = <<>>

\* ------------------------------------------------------------------------
\* Tags: Tags::new and Tags::should_skip_item
\* ------------------------------------------------------------------------
TagUniverse == {"never", "always", "tag1", "tag2"}

\* A plan item: without a tags key, or with a list of tags (empty or not)
TaggedItems ==
  { [hasTags |-> h, tags |-> t] :
      h \in BOOLEAN, t \in SUBSET TagUniverse } \
  { [hasTags |-> FALSE, tags |-> t] : t \in SUBSET TagUniverse \ {{}} }

TagsInit ==
  /\ EngineIdle
  /\ CallsIdle
  /\ tagsCall \in
       { [state |-> "args", tags |-> t, skip_tags |-> s, item |-> it,
          result |-> FALSE] :
           t \in SUBSET TagUniverse, s \in SUBSET TagUniverse,
           it \in TaggedItems }
  /\ compareCall = Idle
  /\ statsCall = Idle
  /\ configCall = Idle

\* Tags::new: panics unless tags and skip_tags are disjoint
TagsNew ==
  /\ tagsCall.state = "args"
  /\ tagsCall' = [tagsCall EXCEPT !.state =
                    IF tagsCall.tags \cap tagsCall.skip_tags # {}
                      THEN "refused" ELSE "built"]
  /\ UNCHANGED <<engineVars, callVars, compareCall, statsCall, configCall>>

SkipTagsHitUnlessAlways(self, item_tags) ==
  self.skip_tags \cap item_tags # {} /\ "always" \notin item_tags
\* if !self.skip_tags.is_disjoint(&item_tags) { return true; }
SkipTagsHit(self, item_tags) == self.skip_tags \cap item_tags # {}

\* Tags::should_skip_item
should_skip_item(self, item) ==
  IF ~item.hasTags THEN FALSE
  ELSE IF item.tags = {} THEN FALSE
  ELSE IF SkipTagsHit(self, item.tags) THEN TRUE
  ELSE IF "never" \in item.tags /\ "never" \notin self.tags THEN TRUE
  ELSE IF self.tags \cap item.tags # {} THEN FALSE
  ELSE IF "always" \in item.tags THEN FALSE
  ELSE IF "never" \in item.tags THEN TRUE
  ELSE TRUE

ShouldSkipItem ==
  /\ tagsCall.state = "built"
  /\ tagsCall' = [tagsCall EXCEPT
                    !.state = "returned",
                    !.result = should_skip_item(tagsCall, tagsCall.item)]
  /\ UNCHANGED <<engineVars, callVars, compareCall, statsCall, configCall>>

TagsNext == TagsNew \/ ShouldSkipItem

SpecTags == TagsInit /\ [][TagsNext]_vars

\* ------------------------------------------------------------------------
\* Comparison with a baseline: compare_benchmark and checker::compare
\* ------------------------------------------------------------------------
\* Durations of the reports of the run and of the baseline file, in ms
RunDurations == {10, 30}
BaselineDurations == {10}
Thresholds ==
  { [some |-> FALSE, parses |-> FALSE, value |-> 0],
    [some |-> TRUE, parses |-> FALSE, value |-> 0],
    [some |-> TRUE, parses |-> TRUE, value |-> 5] }

TimedReport(d) == [name |-> "step", duration |-> d]

SeqsUpTo(S, n) == UNION {[1..k -> S] : k \in 0..n}

CompareInit ==
  /\ EngineIdle
  /\ CallsIdle
  /\ compareCall \in
       { [state |-> "called", list_reports |-> l, hasPath |-> hp,
          threshold |-> th, items |-> b, pos |-> 1, slow_counter |-> 0,
          exit |-> 0, cause |-> ""] :
           l \in SeqsUpTo(SeqsUpTo({TimedReport(d) : d \in RunDurations},
                                   MaxReports), MaxVectors),
           hp \in BOOLEAN, th \in Thresholds,
           b \in SeqsUpTo(BaselineDurations, MaxReports) }
  /\ tagsCall = Idle
  /\ statsCall = Idle
  /\ configCall = Idle

RECURSIVE Positions(_, _)
\* for report in list_reports { for (i, report_item) in report.iter()
\* .enumerate() {..} }: the (vector, index) pairs in the order visited
Positions(l, r) ==
  IF r > Len(l) THEN <<>>
  ELSE [i \in 1..Len(l[r]) |-> <<r, i>>] \o Positions(l, r + 1)

\* compare_benchmark up to the loop of checker::compare
CompareBenchmark ==
  /\ compareCall.state = "called"
  /\ compareCall' =
       IF ~compareCall.hasPath
         THEN [compareCall EXCEPT !.state = "exited", !.exit = 0]
       ELSE IF ~compareCall.threshold.some
         THEN [compareCall EXCEPT !.state = "panicked", !.cause = "threshold"]
       ELSE IF ~compareCall.threshold.parses
         THEN [compareCall EXCEPT !.state = "panicked", !.cause = "parse"]
       ELSE [compareCall EXCEPT !.state = "loop"]
  /\ UNCHANGED <<engineVars, callVars, tagsCall, statsCall, configCall>>

\* delta_ms > threshold_value
IsSlow(duration, recorded, threshold_value) ==
  duration - recorded > threshold_value

\* One turn of the inner loop: items[i] panics past the end of the baseline
CompareStep ==
  /\ compareCall.state = "loop"
  /\ compareCall.pos <= Len(Positions(compareCall.list_reports, 1))
  /\ LET at == Positions(compareCall.list_reports, 1)[compareCall.pos]
         report_item == compareCall.list_reports[at[1]][at[2]]
     IN  compareCall' =
           IF at[2] > Len(compareCall.items)
             THEN [compareCall EXCEPT !.state = "panicked", !.cause = "index"]
             ELSE [compareCall EXCEPT
                     !.pos = @ + 1,
                     !.slow_counter =
                        IF IsSlow(report_item.duration,
                                  compareCall.items[at[2]],
                                  compareCall.threshold.value)
                          THEN @ + 1 ELSE @]
  /\ UNCHANGED <<engineVars, callVars, tagsCall, statsCall, configCall>>

\* compare_benchmark: Ok(_) => process::exit(0), Err(_) => process::exit(1)
ExitCode(slow_counter) == IF slow_counter = 0 THEN 0 ELSE 1

\* compare returns Ok(()) or Err(slow_counter), compare_benchmark exits
CompareExit ==
  /\ compareCall.state = "loop"
  /\ compareCall.pos > Len(Positions(compareCall.list_reports, 1))
  /\ compareCall' = [compareCall EXCEPT
                       !.state = "exited",
                       !.exit = ExitCode(compareCall.slow_counter)]
  /\ UNCHANGED <<engineVars, callVars, tagsCall, statsCall, configCall>>

CompareNext == CompareBenchmark \/ CompareStep \/ CompareExit

SpecCompare == CompareInit /\ [][CompareNext]_vars

\* ------------------------------------------------------------------------
\* Statistics: compute_stats
\* ------------------------------------------------------------------------
Statuses == {199, 200, 299, 300, 520}

\* Histogram::<u64>::new_with_bounds(1, 60 * 60 * 1000, 2): lowest
\* discernible value, highest trackable value, significant figures
HistLow == 1
HistHigh == 60 * 60 * 1000
HistSigFig == 2

\* A report of compute_stats: status and duration in milliseconds
StatReport(st, d) == [name |-> "step", status |-> st, duration |-> d]
\* Durations: one millisecond, four seconds, five seconds
StatReports ==
  {StatReport(st, 1) : st \in Statuses}
    \cup {StatReport(200, d) : d \in {4000, 5000}}

NoStats ==
  [total_requests |-> 0, successful_requests |-> 0, failed_requests |-> 0,
   hist |-> 0]

StatsInit ==
  /\ EngineIdle
  /\ CallsIdle
  /\ statsCall \in
       { [state |-> "called", sub_reports |-> l, g |-> 1, h |-> 1,
          group_by_status |-> <<>>, hist |-> 0, stats |-> NoStats] :
           l \in SeqsUpTo(StatReports, MaxStats) }
  /\ tagsCall = Idle
  /\ compareCall = Idle
  /\ configCall = Idle

StatusClassRounded(status) == (status + 50) \div 100
\* req.status / 100 on a u16
StatusClass(status) == status \div 100

\* group_by_status.entry(class).or_insert_with(Vec::new).push(req)
GroupPush(groups, class, req) ==
  [c \in DOMAIN groups \cup {class} |->
     IF c = class
       THEN (IF c \in DOMAIN groups THEN Append(groups[c], req) ELSE <<req>>)
       ELSE groups[c]]

\* First loop: one report filed under its status class
StatsGroup ==
  /\ statsCall.state = "called"
  /\ statsCall.g <= Len(statsCall.sub_reports)
  /\ LET req == statsCall.sub_reports[statsCall.g]
     IN  statsCall' = [statsCall EXCEPT
                         !.g = @ + 1,
                         !.group_by_status =
                            GroupPush(@, StatusClass(req.status), req)]
  /\ UNCHANGED <<engineVars, callVars, tagsCall, compareCall, configCall>>

RECURSIVE PowerOfTwoFrom(_, _)
\* The first of v, 2v, 4v, .. that is greater than limit
PowerOfTwoFrom(v, limit) == IF v > limit THEN v ELSE PowerOfTwoFrom(2 * v, limit)

\* The histogram's sub-bucket count for its significant figures (the power
\* of two that holds 2 * 10^figures values) and the first value beyond its
\* buckets: the sub-bucket count doubled until it passes the highest
\* trackable value (auto-resize is off)
SubBucketCount == PowerOfTwoFrom(1, 2 * (10 ^ HistSigFig) - 1)
SmallestUntrackable == PowerOfTwoFrom(SubBucketCount * HistLow, HistHigh)

\* (r.duration * 1_000.0) as u64
Micros(duration) == duration * 1000

\* Histogram::record(value) is Ok: the value falls in a bucket
HistAccepts(value) == value < SmallestUntrackable

\* Second loop: hist += (r.duration * 1_000.0) as u64; AddAssign unwraps
\* the result of record, so a value beyond the buckets panics
StatsRecord ==
  /\ statsCall.state = "called"
  /\ statsCall.g > Len(statsCall.sub_reports)
  /\ statsCall.h <= Len(statsCall.sub_reports)
  /\ statsCall' =
       IF HistAccepts(Micros(statsCall.sub_reports[statsCall.h].duration))
         THEN [statsCall EXCEPT !.h = @ + 1, !.hist = @ + 1]
         ELSE [statsCall EXCEPT !.state = "panicked"]
  /\ UNCHANGED <<engineVars, callVars, tagsCall, compareCall, configCall>>

\* group_by_status.entry(2).or_insert_with(Vec::new).len()
SuccessfulRequests(groups) == IF 2 \in DOMAIN groups THEN Len(groups[2]) ELSE 0

\* The totals and the DrillStats returned
StatsReturn ==
  /\ statsCall.state = "called"
  /\ statsCall.g > Len(statsCall.sub_reports)
  /\ statsCall.h > Len(statsCall.sub_reports)
  /\ LET total_requests == Len(statsCall.sub_reports)
         successful_requests == SuccessfulRequests(statsCall.group_by_status)
         failed_requests == total_requests - successful_requests
     IN  statsCall' = [statsCall EXCEPT
                         !.state = "returned",
                         !.stats = [total_requests |-> total_requests,
                                    successful_requests |-> successful_requests,
                                    failed_requests |-> failed_requests,
                                    hist |-> statsCall.hist]]
  /\ UNCHANGED <<engineVars, callVars, tagsCall, compareCall, configCall>>

StatsNext == StatsGroup \/ StatsRecord \/ StatsReturn

SpecStats == StatsInit /\ [][StatsNext]_vars

\* ------------------------------------------------------------------------
\* Configuration: Config::new
\* ------------------------------------------------------------------------
\* A numeric setting of the document: absent, or an integer
Settings(max) ==
  {[some |-> FALSE, value |-> 0]}
    \cup {[some |-> TRUE, value |-> v] : v \in (0 - 1)..max}

MapsOver(keys, values) == UNION {[ks -> values] : ks \in SUBSET keys}

ConfigInit ==
  /\ EngineIdle
  /\ CallsIdle
  /\ configCall \in
       { [state |-> "doc", iterations |-> n, concurrency |-> c, rampup |-> r,
          global |-> g, env |-> e,
          config |-> [iterations |-> 0, concurrency |-> 0, rampup |-> 0,
                      global |-> <<>>]] :
           n \in Settings(MaxIterations), c \in Settings(MaxIterations),
           r \in Settings(MaxRampup),
           g \in MapsOver({"A", "B"}, {"doc"}),
           e \in MapsOver({"A", "B"}, {"env"}) }
  /\ tagsCall = Idle
  /\ compareCall = Idle
  /\ statsCall = Idle

\* read_i64_configuration: absent or negative gives the default
read_i64_configuration(setting, default) ==
  IF setting.some /\ setting.value >= 0 THEN setting.value ELSE default

\* BTreeMap::append: the entries of other move into self, and a key present
\* in both takes the value of other
BTreeAppend(self, other) ==
  [k \in DOMAIN self \cup DOMAIN other |->
     IF k \in DOMAIN other THEN other[k] ELSE self[k]]

\* Config::new
ConfigNew ==
  /\ configCall.state = "doc"
  /\ LET iterations == read_i64_configuration(configCall.iterations, NITERATIONS)
         concurrency == read_i64_configuration(configCall.concurrency, iterations)
         rampup == read_i64_configuration(configCall.rampup, NRAMPUP)
         global == BTreeAppend(configCall.global, configCall.env)
         cf == [iterations |-> iterations, concurrency |-> concurrency,
                rampup |-> rampup, global |-> global]
     IN  configCall' =
           IF ConfigAccepted(cf)
             THEN [configCall EXCEPT !.state = "loaded", !.config = cf]
             ELSE [configCall EXCEPT !.state = "refused"]
  /\ UNCHANGED <<engineVars, callVars, tagsCall, compareCall, statsCall>>

ConfigNext == ConfigNew

SpecConfig == ConfigInit /\ [][ConfigNext]_vars

\* ------------------------------------------------------------------------
\* Assert: Assert::execute and eq(lhs, rhs), on JSON values
\* ------------------------------------------------------------------------
\* serde_json::Value: Bool, Number, String, Array and Object (a Map, which
\* iterates in key order: a sequence of entries sorted by key)
JBool(b) == [t |-> "bool", b |-> b, n |-> 0, s |-> "", a |-> <<>>, o |-> <<>>]
JNum(n) == [t |-> "num", b |-> FALSE, n |-> n, s |-> "", a |-> <<>>, o |-> <<>>]
JStr(s) == [t |-> "str", b |-> FALSE, n |-> 0, s |-> s, a |-> <<>>, o |-> <<>>]
JArr(a) == [t |-> "arr", b |-> FALSE, n |-> 0, s |-> "", a |-> a, o |-> <<>>]
JObj(o) == [t |-> "obj", b |-> FALSE, n |-> 0, s |-> "", a |-> <<>>, o |-> o]

JStrings == {JStr("x"), JStr("y")}
JNumbers == {JNum(1), JNum(2)}
JLeaves == JStrings \cup {JStr("1")} \cup JNumbers \cup {JBool(TRUE), JBool(FALSE)}
JArrays == {JArr(a) : a \in SeqsUpTo(JStrings, MaxArray)}
JEntryValues == {JStr("x"), JNum(1)}
JObjects ==
  {JObj(<<>>)}
    \cup {JObj(<<[k |-> k, v |-> v]>>) : k \in {"a", "b"}, v \in JEntryValues}
    \cup {JObj(<<[k |-> "a", v |-> v], [k |-> "b", v |-> w]>>) :
            v \in JEntryValues, w \in JEntryValues}
JValues == JLeaves \cup JArrays \cup JObjects

\* One assertion: the literal value of the action and the value the
\* context holds at its key
AssertInit ==
  /\ EngineIdle
  /\ tagsCall = Idle
  /\ compareCall = Idle
  /\ statsCall = Idle
  /\ configCall = Idle
  /\ rangeCall = Idle
  /\ includeCall = Idle
  /\ assertCall \in
       { [state |-> "args", value |-> l, held |-> c] :
           l \in JValues, c \in JValues }

RECURSIVE to_string(_)
RECURSIVE JoinJson(_)
RECURSIVE JoinEntries(_)
\* JoinJson, JoinEntries: the elements in compact JSON, separated by commas
JoinJson(a) ==
  IF a = <<>> THEN ""
  ELSE IF Len(a) = 1 THEN to_string(a[1])
  ELSE to_string(a[1]) \o "," \o JoinJson(Tail(a))

JoinEntries(o) ==
  IF o = <<>> THEN ""
  ELSE LET e == DisplayValue(o[1].k) \o ":" \o to_string(o[1].v)
       IN  IF Len(o) = 1 THEN e ELSE e \o "," \o JoinEntries(Tail(o))

\* serde_json::to_string: the compact JSON text of a value
to_string(v) ==
  CASE v.t = "bool" -> IF v.b THEN "true" ELSE "false"
    [] v.t = "num" -> ToString(v.n)
    [] v.t = "str" -> DisplayValue(v.s)
    [] v.t = "arr" -> "[" \o JoinJson(v.a) \o "]"
    [] v.t = "obj" -> "{" \o JoinEntries(v.o) \o "}"

\* Interpolator::resolve("{{ key }}"): a string as itself without quotes,
\* any other value as its JSON text
Rendered(v) == IF v.t = "str" THEN v.s ELSE to_string(v)

\* rhs.parse::<bool>(), rhs.parse::<f64>(), serde_json::from_str::<Vec<String>>
\* and from_str::<Map<String, Value>>: the value the text stands for, if any
ParsesAs(S, rhs) == \E v \in S : to_string(v) = rhs
Parsed(S, rhs) == CHOOSE v \in S : to_string(v) = rhs

Verdict(b) == IF b THEN "true" ELSE "false"

RECURSIVE eq(_, _)
RECURSIVE ZipAll(_, _)
RECURSIVE ZipEntries(_, _)
\* arr.iter().zip(deser_rhs).map(|(lhs, rhs)| eq(lhs, rhs, ..)).all(|b| b):
\* zip stops at the end of the shorter side, all stops at the first false
ZipAll(l, r) ==
  IF l = <<>> \/ r = <<>> THEN "true"
  ELSE LET h == eq(Head(l), Head(r))
       IN  IF h = "true" THEN ZipAll(Tail(l), Tail(r)) ELSE h

\* ob.iter().zip(deser_rhs): the keys compared and the values compared
\* through the JSON text of the right one, entry by entry
ZipEntries(l, r) ==
  IF l = <<>> \/ r = <<>> THEN "true"
  ELSE LET v == eq(Head(l).v, to_string(Head(r).v))
           h == IF v = "panic" THEN v ELSE Verdict(Head(l).k = Head(r).k /\ v = "true")
       IN  IF h = "true" THEN ZipEntries(Tail(l), Tail(r)) ELSE h

\* eq(lhs, rhs, interpolator): "true", "false", or "panic" when an unwrap
\* fails
eq(lhs, rhs) ==
  CASE lhs.t = "bool" ->
         IF rhs \in {"true", "false"} THEN Verdict(lhs.b = (rhs = "true"))
                                       ELSE "panic"
    [] lhs.t = "num" ->
         IF ParsesAs(JNumbers, rhs) THEN Verdict(lhs.n = Parsed(JNumbers, rhs).n)
                                    ELSE "panic"
    [] lhs.t = "str" -> Verdict(lhs.s = rhs)
    [] lhs.t = "arr" ->
         IF ParsesAs(JArrays, rhs)
           THEN ZipAll(lhs.a, [k \in 1..Len(Parsed(JArrays, rhs).a) |->
                                 Parsed(JArrays, rhs).a[k].s])
           ELSE "panic"
    [] lhs.t = "obj" ->
         IF ParsesAs(JObjects, rhs) THEN ZipEntries(lhs.o, Parsed(JObjects, rhs).o)
                                    ELSE "panic"

\* Assert::execute: the value at the key rendered, compared with the
\* literal; a mismatch panics
AssertExecute ==
  /\ assertCall.state = "args"
  /\ assertCall' = [assertCall EXCEPT !.state =
                      IF eq(assertCall.value, Rendered(assertCall.held)) = "true"
                        THEN "passed" ELSE "panicked"]
  /\ UNCHANGED <<engineVars, tagsCall, compareCall, statsCall, configCall,
                 rangeCall, includeCall>>

AssertNext == AssertExecute

SpecAssert == AssertInit /\ [][AssertNext]_vars

\* ------------------------------------------------------------------------
\* A Request over with_items_range: Request::new with iter_values, then
\* Request::execute; and the element list of parse::with_items
\* ------------------------------------------------------------------------
\* Yaml::Integer(int) and Yaml::Hash(map)
YamlInteger(int) == [yaml |-> "Integer", int |-> int, map |-> <<>>]
YamlHash(map) == [yaml |-> "Hash", int |-> 0, map |-> map]

RangeInit ==
  /\ EngineIdle
  /\ tagsCall = Idle
  /\ compareCall = Idle
  /\ statsCall = Idle
  /\ configCall = Idle
  /\ assertCall = Idle
  /\ includeCall = Idle
  /\ rangeCall \in
       { [state |-> "doc", start |-> a, stop |-> b, step |-> c,
          with_items |-> <<>>, todo |-> <<>>, injected |-> <<>>, sent |-> 0,
          reports |-> 0, loader |-> "doc", items |-> <<>>] :
           a \in 0..MaxRange, b \in 0..MaxRange,
           c \in {[some |-> FALSE, value |-> 0]}
                   \cup {[some |-> TRUE, value |-> v] : v \in 0..2} }

RECURSIVE step_by(_, _, _)
\* (start..stop).step_by(step): start, start + step, .. below stop
step_by(start, stop, step) ==
  IF start >= stop THEN <<>>
  ELSE <<start>> \o step_by(start + step, stop, step)

\* iter_values: step defaults to 1
StepOf(c) == IF c.step.some THEN c.step.value ELSE 1

\* iter_values: stop made inclusive; the range is expanded only if
\* stop > start && start > 0
RangeExpanded(c) == c.stop + 1 > c.start /\ c.start > 0

\* iter_values: the items of the range as Yaml::Integer, or no item
iter_values(c) ==
  IF RangeExpanded(c)
    THEN LET ints == step_by(c.start, c.stop + 1, StepOf(c))
         IN  [k \in 1..Len(ints) |-> YamlInteger(ints[k])]
    ELSE <<>>

\* Request::new over with_items_range: Iterator::step_by panics on a step
\* of 0; pick defaults to the number of items
RangeNew ==
  /\ rangeCall.state = "doc"
  /\ rangeCall' =
       IF RangeExpanded(rangeCall) /\ StepOf(rangeCall) = 0
         THEN [rangeCall EXCEPT !.state = "refused"]
         ELSE [rangeCall EXCEPT !.state = "built",
                                !.with_items = iter_values(rangeCall),
                                !.todo = iter_values(rangeCall)]
  /\ UNCHANGED <<engineVars, tagsCall, compareCall, statsCall, configCall,
                 assertCall, includeCall>>

\* Request::execute with no item: execute_one_request(.., None), one
\* dispatch and one report
RangeExecuteOne ==
  /\ rangeCall.state = "built"
  /\ rangeCall.with_items = <<>>
  /\ rangeCall' = [rangeCall EXCEPT !.state = "done", !.sent = @ + 1,
                                    !.reports = @ + 1]
  /\ UNCHANGED <<engineVars, tagsCall, compareCall, statsCall, configCall,
                 assertCall, includeCall>>

\* Yaml::as_hash: Some for a Yaml::Hash, None for anything else
as_hash(val) == [some |-> val.yaml = "Hash", map |-> val.map]

\* Request::execute, one item of the loop: send_request unwraps
\* with_item.as_hash() before anything else, then the request is dispatched
\* and reported
RangeSend ==
  /\ rangeCall.state = "built"
  /\ rangeCall.todo # <<>>
  /\ rangeCall' =
       IF as_hash(Head(rangeCall.todo)).some
         THEN [rangeCall EXCEPT
                 !.injected = Append(@, as_hash(Head(rangeCall.todo)).map),
                 !.sent = @ + 1, !.reports = @ + 1,
                 !.todo = Tail(@),
                 !.state = IF Len(rangeCall.todo) = 1 THEN "done" ELSE @]
         ELSE [rangeCall EXCEPT !.state = "panicked"]
  /\ UNCHANGED <<engineVars, tagsCall, compareCall, statsCall, configCall,
                 assertCall, includeCall>>

\* parse::with_items, WithItemsType::Range: start, stop and step are all
\* required, the stop is exclusive, and step_by panics on a step of 0
WithItemsRange ==
  /\ rangeCall.loader = "doc"
  /\ rangeCall' =
       IF ~rangeCall.step.some \/ rangeCall.step.value = 0
         THEN [rangeCall EXCEPT !.loader = "refused"]
         ELSE [rangeCall EXCEPT
                 !.loader = "loaded",
                 !.items = step_by(rangeCall.start, rangeCall.stop,
                                   rangeCall.step.value)]
  /\ UNCHANGED <<engineVars, tagsCall, compareCall, statsCall, configCall,
                 assertCall, includeCall>>

RangeNext == RangeNew \/ RangeExecuteOne \/ RangeSend \/ WithItemsRange

SpecRange == RangeInit /\ [][RangeNext]_vars

\* ------------------------------------------------------------------------
\* Loading a document and its includes: include::parse and
\* parse_from_filepath
\* ------------------------------------------------------------------------
Files == {"a.yml", "b.yml"}
RootFile == "a.yml"

\* A plan item: an action, or an include of a file
StepItem == [include |-> FALSE, path |-> ""]
IncludeItem(f) == [include |-> TRUE, path |-> f]
PlanFileItems == {StepItem} \cup {IncludeItem(f) : f \in Files}

Frame(path) == [path |-> path, at |-> 1]

IncludeInit ==
  /\ EngineIdle
  /\ tagsCall = Idle
  /\ compareCall = Idle
  /\ statsCall = Idle
  /\ configCall = Idle
  /\ assertCall = Idle
  /\ rangeCall = Idle
  /\ includeCall \in
       { [state |-> "loading", files |-> fs, stack |-> <<Frame(RootFile)>>,
          parsed |-> <<>>] :
           fs \in [Files -> SeqsUpTo(PlanFileItems, MaxItems)] }

\* The call of parse_from_filepath on top of the stack and its current item
Top == includeCall.stack[Len(includeCall.stack)]
TopItems == includeCall.files[Top.path]
Loading ==
  /\ includeCall.state = "loading"
  /\ includeCall.stack # <<>>

\* include::is_that_you
is_that_you(item) == item.include

\* parse_from_filepath, an include item: include::parse reads the path
\* and calls parse_from_filepath on it; the call needs room on the stack
IncludeParse ==
  /\ Loading
  /\ Top.at <= Len(TopItems)
  /\ is_that_you(TopItems[Top.at])
  /\ includeCall' =
       IF Len(includeCall.stack) < MaxDepth
         THEN [includeCall EXCEPT
                 !.stack = Append(@, Frame(TopItems[Top.at].path))]
         ELSE [includeCall EXCEPT !.state = "overflow"]
  /\ UNCHANGED <<engineVars, tagsCall, compareCall, statsCall, configCall,
                 assertCall, rangeCall>>

\* parse_from_filepath, any other item: op.parse pushes its action
ItemParse ==
  /\ Loading
  /\ Top.at <= Len(TopItems)
  /\ ~is_that_you(TopItems[Top.at])
  /\ includeCall' = [includeCall EXCEPT
                       !.parsed = Append(@, Top.path),
                       !.stack[Len(includeCall.stack)].at = @ + 1]
  /\ UNCHANGED <<engineVars, tagsCall, compareCall, statsCall, configCall,
                 assertCall, rangeCall>>

\* parse_from_filepath returns: the caller goes on after its include item
FileParsed ==
  /\ Loading
  /\ Top.at > Len(TopItems)
  /\ LET n == Len(includeCall.stack)
     IN  includeCall' =
           IF n = 1
             THEN [includeCall EXCEPT !.state = "loaded", !.stack = <<>>]
             ELSE [includeCall EXCEPT
                     !.stack = [SubSeq(@, 1, n - 1) EXCEPT ![n - 1].at = @ + 1]]
  /\ UNCHANGED <<engineVars, tagsCall, compareCall, statsCall, configCall,
                 assertCall, rangeCall>>

IncludeNext == IncludeParse \/ ItemParse \/ FileParsed

SpecInclude == IncludeInit /\ [][IncludeNext]_vars

\* ------------------------------------------------------------------------
\* Properties
\* ------------------------------------------------------------------------
\* Iterations in the scheduler's queue: spawned and not yet collected
InFlight == {i \in Iters : pc[i] \in {"spawned", "sleep", "run"}}

RECURSIVE SubRequests(_)
\* Sub-requests one traversal of the benchmark sends: one per Request
\* without items, one per item taken otherwise
SubRequests(b) ==
  IF b = <<>> THEN 0
  ELSE (IF Head(b).kind # "request" THEN 0
        ELSE IF Head(b).items = <<>> THEN 1
        ELSE IF Head(b).pick < Len(Head(b).items) THEN Head(b).pick
        ELSE Len(Head(b).items))
       + SubRequests(Tail(b))

CountNamed(rs, name) == Cardinality({p \in 1..Len(rs) : rs[p].name = name})

\* C1: a run with iterations = N and 1 <= concurrency = C <= N never has
\* more than C iterations in flight, and when it finishes it holds exactly
\* N report vectors, one for each iteration index 0..N-1.
C1_BoundedRun ==
  (~config.report /\ config.concurrency >= 1
     /\ config.concurrency <= config.iterations) =>
    /\ Cardinality(InFlight) <= config.concurrency
    /\ runState = "done" =>
         /\ Len(results) = config.iterations
         /\ Len(collected) = config.iterations
         /\ {collected[k] : k \in 1..Len(collected)} = Iters
         /\ \A k \in 1..Len(results) : results[k] = reports[collected[k]]

\* Two iterations ran at once and the later one finished first
C1_Witness ==
  /\ runState = "done"
  /\ config.concurrency = 2
  /\ collected = <<1, 0>>

\* C2: the reports an iteration holds are one per request it dispatched
\* and got an answer for; when it returns, their number is the number of
\* sub-requests of the plan (one per item kept after pick), and every
\* report carries the name of a Request action: no other action adds or
\* removes a report.
C2_ReportPerRequest ==
  \A i \in Iters :
    /\ Len(reports[i]) + (IF pc[i] = "run" /\ ph[i] = "await" THEN 1 ELSE 0)
         = sent[i]
    /\ pc[i] = "done" => Len(reports[i]) = SubRequests(benchmark)
    /\ \A p \in 1..Len(reports[i]) :
         \E n \in 1..Len(benchmark) :
           benchmark[n].kind = "request" /\ benchmark[n].name = reports[i][p].name

\* An iteration returned two reports from a plan that also ran an exec
C2_Witness ==
  \E i \in Iters :
    /\ pc[i] = "done"
    /\ Len(reports[i]) = 2
    /\ Len(benchmark) = 2
    /\ benchmark[2].kind = "exec"
    /\ ~outcome[i][2].resp

\* C3 as stated: a report has status 520 exactly when the dispatch received
\* no HTTP response.
C3_Original ==
  \A i \in Iters : \A p \in 1..Len(reports[i]) :
    (reports[i][p].status = TransportErrorStatus) <=> ~outcome[i][p].resp

\* C3 amended: a dispatch without response is reported with status 520, a
\* received response is reported with its own status code (which is 520
\* when the server answers 520).
C3_StatusOfOutcome ==
  \A i \in Iters :
    /\ Len(outcome[i]) = Len(reports[i])
    /\ \A p \in 1..Len(reports[i]) :
         /\ ~outcome[i][p].resp => reports[i][p].status = TransportErrorStatus
         /\ outcome[i][p].resp => reports[i][p].status = outcome[i][p].status

\* One iteration holds a report of a failed dispatch and a report of a
\* response the server sent with status 520
C3_Witness ==
  \E i \in Iters : \E p, q \in 1..Len(reports[i]) :
    /\ ~outcome[i][p].resp
    /\ outcome[i][q].resp
    /\ reports[i][q].status = TransportErrorStatus

\* C4 as stated: whenever a Request with assign set pushes a report (a
\* response or a transport failure), context[assign].status is the status
\* of that report.
C4_AssignedStatus ==
  [][\A i \in Iters :
       (Len(reports'[i]) = Len(reports[i]) + 1 /\ Cur(i).assign # NoAssign) =>
         /\ Cur(i).assign \in DOMAIN context'[i]
         /\ context'[i][Cur(i).assign].status
              = reports'[i][Len(reports'[i])].status]_vars

\* C5: the pool never holds more entries than domain keys requested so
\* far, holds only requested keys, and no domain key ever has a second
\* client built for it, whatever the interleaving.
C5_PoolBounded ==
  /\ Cardinality(DOMAIN pool) <= Cardinality(requested)
  /\ DOMAIN pool \subseteq requested
  /\ \A d \in Domains : built[d] <= 1

\* An iteration holds the pool lock on a vacant entry while another one
\* is about to request the same domain key
C5_Witness ==
  \E i, j \in Iters :
    /\ i # j
    /\ pc[i] = "run" /\ ph[i] = "locked" /\ vacant[i]
    /\ pc[j] = "run" /\ ph[j] = "send"
    /\ Cur(i).domain = Cur(j).domain

\* C6 as stated: with rampup R > 0 and N iterations, iteration i builds
\* its context no earlier than t0 + R*i/N (t0 = 0, so N * start >= R * i).
C6_RampupStart ==
  \A i \in Iters :
    (config.rampup > 0 /\ pc[i] \in {"run", "done"}) =>
      config.iterations * startTime[i] >= config.rampup * i

\* C7 as stated: over L items, pick = 0 sends L sub-requests, 0 < K <= L
\* sends K, and K > L or K < 0 is refused by the loader with no request
\* sent.
C7_PickCount ==
  \A n \in 1..Len(doc) :
    (doc[n].kind = "request" /\ doc[n].items # <<>> /\ doc[n].hasPick) =>
      LET L == Len(doc[n].items)
          K == doc[n].pick
      IN  /\ (K > L \/ K < 0) =>
               (runState = "refused" /\ \A i \in Iters : sent[i] = 0)
          /\ (K >= 0 /\ K <= L) =>
               \A i \in Iters :
                 pc[i] = "done" =>
                   CountNamed(reports[i], doc[n].name) = (IF K = 0 THEN L ELSE K)

RECURSIVE Replay(_, _)
\* The context obtained from c by the writes of the trace, in order
Replay(c, tr) ==
  IF tr = <<>> THEN c
  ELSE Replay([k \in DOMAIN c \cup DOMAIN Head(tr).wrote |->
                 IF k \in DOMAIN Head(tr).wrote THEN Head(tr).wrote[k] ELSE c[k]],
              Tail(tr))

\* C8: the context of an iteration holds exactly the seed (iteration,
\* urls, global) overwritten by the writes of that iteration's own actions;
\* before the iteration starts its context is empty. No write of another
\* iteration is ever in it.
C8_ContextIsolated ==
  \A i \in Iters :
    IF pc[i] \in {"run", "done"}
      THEN /\ context[i] = Replay(SeedContext(i), trace[i])
           /\ trace[i] = <<>> => context[i] = SeedContext(i)
      ELSE context[i] = <<>>

\* Two running iterations hold different values under the same assign key
C8_Witness ==
  \E i, j \in Iters :
    /\ i # j
    /\ pc[i] = "run" /\ pc[j] = "run"
    /\ "r" \in DOMAIN context[i] /\ "r" \in DOMAIN context[j]
    /\ context[i]["r"] # context[j]["r"]
    /\ context[i]["iteration"] # context[j]["iteration"]

\* C9: the actions of an iteration run one after the other in plan order
\* (only the last action begun may be unfinished), and an action sees every
\* context entry an earlier action wrote that no action in between
\* overwrote.
C9_Sequential ==
  \A i \in Iters :
    LET tr == trace[i]
    IN  /\ \A p \in 1..Len(tr) : tr[p].idx = p
        /\ \A p \in 1..Len(tr) : p < Len(tr) => tr[p].closed
        /\ \A p, q \in 1..Len(tr) :
             p < q =>
               \A k \in DOMAIN tr[p].wrote :
                 (\A r \in (p + 1)..(q - 1) : k \notin DOMAIN tr[r].wrote) =>
                   /\ k \in DOMAIN tr[q].seen
                   /\ tr[q].seen[k] = tr[p].wrote[k]

\* The third action of a plan saw what the first and the second wrote
C9_Witness ==
  \E i \in Iters :
    /\ Len(trace[i]) = 3
    /\ trace[i][3].closed
    /\ "k" \in DOMAIN trace[i][1].wrote
    /\ "r" \in DOMAIN trace[i][2].wrote
    /\ trace[i][3].seen["k"] = trace[i][1].wrote["k"]
    /\ trace[i][3].seen["r"] = trace[i][2].wrote["r"]

C11_CookieHeader ==
  \A i \in Iters : \A p \in 1..Len(cookieSent[i]) :
    /\ p = 1 => ~cookieSent[i][p].present
    /\ (\E q \in 1..(p - 1) :
          outcome[i][q].resp /\ <<"s", "abc">> \in outcome[i][q].cookies) =>
         cookieSent[i][p] = [present |-> TRUE, value |-> "s=abc"]

\* C16 as stated: with a report path configured, whatever iterations,
\* concurrency and rampup are, the run is not turned down for them, the
\* scheduler starts nothing, and when the run ends iteration 0 has run and
\* the file holds exactly its reports.
C16_ReportMode ==
  (config.report /\ ~LoadRefused(doc)) =>
    /\ panicked # "runtime"
    /\ nextIteration = 0
    /\ runState = "done" =>
         /\ pc[0] = "done"
         /\ written = [some |-> TRUE, lines |-> join(reports[0], "")]

RECURSIVE SubRequestNames(_)
\* The names of the sub-requests one traversal of the benchmark sends, in
\* plan order
SubRequestNames(b) ==
  IF b = <<>> THEN <<>>
  ELSE LET a == Head(b)
           n == IF a.kind # "request" THEN 0
                ELSE IF a.items = <<>> THEN 1
                ELSE IF a.pick < Len(a.items) THEN a.pick
                ELSE Len(a.items)
       IN  [k \in 1..n |-> a.name] \o SubRequestNames(Tail(b))

\* C17: every vector of the result is the report vector of one iteration,
\* a different iteration for each vector, and holds one report per request
\* that iteration dispatched, in dispatch order: the p-th report has the
\* name of the p-th sub-request of the plan and the status of the p-th
\* dispatch of that iteration. The order of the vectors is free.
C17_VectorPerIteration ==
  /\ Len(results) = Len(collected)
  /\ \A k, l \in 1..Len(collected) : k # l => collected[k] # collected[l]
  /\ \A k \in 1..Len(results) :
       k <= Len(collected) =>
         LET i == collected[k]
         IN  /\ Len(results[k]) = Len(outcome[i])
             /\ Len(results[k]) = Len(SubRequestNames(benchmark))
             /\ \A p \in 1..Len(results[k]) :
                  /\ p <= Len(outcome[i])
                  /\ p <= Len(SubRequestNames(benchmark))
                  /\ results[k][p].name = SubRequestNames(benchmark)[p]
                  /\ results[k][p].status =
                       (IF outcome[i][p].resp THEN outcome[i][p].status
                                              ELSE TransportErrorStatus)

\* Iteration 1 was collected before iteration 0, each with two reports of
\* different names, and the two vectors differ
C17_Witness ==
  /\ runState = "done"
  /\ collected = <<1, 0>>
  /\ Len(results) = 2
  /\ Len(results[1]) = 2
  /\ results[1] # results[2]
  /\ results[1][1].name # results[1][2].name
  /\ results[1][1].status # results[1][2].status

\* The keys the items of a data-driven Request carry
ItemKeys(a) == UNION {DOMAIN a.items[n] : n \in 1..Len(a.items)}

\* C20 as stated: after a Request over with_items has finished, every
\* context key an item overrode holds its pre-injection value again and
\* every key an item introduced is gone: the next action sees them as the
\* Request found them.
C20_ItemScoped ==
  \A i \in Iters : \A p \in 1..Len(trace[i]) :
    LET a == benchmark[trace[i][p].idx]
    IN  (a.kind = "request" /\ a.items # <<>> /\ p < Len(trace[i])) =>
          \A k \in ItemKeys(a) \ {a.assign, "cookies"} :
            IF k \in DOMAIN trace[i][p].seen
              THEN /\ k \in DOMAIN trace[i][p + 1].seen
                   /\ trace[i][p + 1].seen[k] = trace[i][p].seen[k]
              ELSE k \notin DOMAIN trace[i][p + 1].seen

\* C14 as stated: should_skip_item returns true exactly when (a) a tag of
\* the item is in skip_tags, or (b) the item has `never` and `never` is not
\* an include-tag, or (c) the include-tags are non-empty, disjoint from the
\* item's tags, and the item lacks `always`; so a tagged item is kept when
\* both tag sets are empty and an item without tags is never skipped.
C14_SkipRule ==
  tagsCall.state = "returned" =>
    LET t == tagsCall.tags
        s == tagsCall.skip_tags
        it == tagsCall.item.tags
    IN  tagsCall.result =
          (\/ it \cap s # {}
           \/ "never" \in it /\ "never" \notin t
           \/ t # {} /\ t \cap it = {} /\ it # {} /\ "always" \notin it)

\* C15: an item one of whose tags is in skip_tags is skipped, whatever the
\* include-tags are, also when it carries `always` or an included tag.
C15_SkipTagsWin ==
  (tagsCall.state = "returned"
     /\ tagsCall.item.tags \cap tagsCall.skip_tags # {}) =>
    tagsCall.result = TRUE

\* An item tagged always and tag2 is skipped for its tag1 although tag2 is
\* an include-tag
C15_Witness ==
  /\ tagsCall.state = "returned"
  /\ tagsCall.item.tags = {"always", "tag1", "tag2"}
  /\ tagsCall.skip_tags = {"tag1"}
  /\ tagsCall.tags = {"tag2"}
  /\ tagsCall.result = TRUE

\* Positions of the run that have a baseline entry
ComparedPositions(l, items) ==
  { at \in {<<r, i>> : r \in 1..MaxVectors + 1, i \in 1..MaxReports + 1} :
      at[1] <= Len(l) /\ at[2] <= Len(l[at[1]]) /\ at[2] <= Len(items) }

\* Steps that exceed their baseline duration by more than the threshold
SlowSteps(c) ==
  Cardinality({ at \in ComparedPositions(c.list_reports, c.items) :
                  c.list_reports[at[1]][at[2]].duration - c.items[at[2]]
                    > c.threshold.value })

\* C12 as stated: when the run is compared with a baseline and k steps are
\* slower than the baseline by more than the threshold, the process exits
\* with code 0 if k = 0 and with code k otherwise.
C12_ExitCode ==
  (compareCall.state = "exited" /\ compareCall.hasPath) =>
    compareCall.exit = SlowSteps(compareCall)

\* C13 as stated: whichever of a report vector and the baseline is longer,
\* the comparator does not fail: it compares the positions both have and
\* returns its count.
C13_LengthsTolerated ==
  (compareCall.state # "idle" /\ compareCall.hasPath
     /\ compareCall.threshold.parses) =>
    /\ compareCall.state # "panicked"
    /\ compareCall.state = "exited" =>
         compareCall.slow_counter = SlowSteps(compareCall)

\* C18 as stated: after the env entries are merged into global, every key
\* of the document's explicit global mapping still has the value the
\* document gave it, also when the env file defines the same key.
C18_GlobalWins ==
  configCall.state = "loaded" =>
    \A k \in DOMAIN configCall.global :
      /\ k \in DOMAIN configCall.config.global
      /\ configCall.config.global[k] = configCall.global[k]

C24_MalformedAborts ==
  \A n \in 1..Len(benchmark) :
    (benchmark[n].kind = "request" /\ ~benchmark[n].valid) =>
      /\ \A i \in Iters :
           /\ ip[i] <= n
           /\ (pc[i] = "run" /\ ip[i] = n) => ph[i] \in {"next", "send"}
           /\ poolLock = i => ip[i] < n
           /\ sent[i] <= SubRequests(SubSeq(benchmark, 1, n - 1))
           /\ CountNamed(reports[i], benchmark[n].name) = 0
      /\ \A k \in 1..Len(results) :
           CountNamed(results[k], benchmark[n].name) = 0
      /\ benchmark[n].domain \notin DOMAIN pool
      /\ benchmark[n].domain \notin requested
      /\ panicked = "request" => runState = "aborted"

\* The run was aborted by the malformed request after the request before
\* it had been dispatched and reported
C24_Witness ==
  /\ runState = "aborted"
  /\ panicked = "request"
  /\ \E i \in Iters :
       /\ ~Cur(i).valid
       /\ ph[i] = "send"
       /\ Len(reports[i]) = 1
       /\ reports[i][1].name # Cur(i).name

\* C25: the pool lock is held only between the lookup and the insertion
\* of the client; it is released before the dispatch suspends the
\* iteration, so no iteration waits for a response while holding it.
C25_LockReleased ==
  /\ \A i \in Iters :
       (pc[i] = "run" /\ ph[i] = "await") => poolLock # i
  /\ poolLock # NoHolder =>
       /\ poolLock \in Iters
       /\ pc[poolLock] = "run"
       /\ ph[poolLock] = "locked"

\* One iteration holds the lock for its lookup while another one waits for
\* its response
C25_Witness ==
  \E i, j \in Iters :
    /\ i # j
    /\ pc[i] = "run" /\ ph[i] = "await"
    /\ pc[j] = "run" /\ ph[j] = "locked"
    /\ poolLock = j
\* C21 as stated: a request whose with_items is declared and resolves to
\* an empty list is skipped: it is never dispatched and no report carries
\* its name; it does not run once without an item.
C21_EmptySkipped ==
  \A n \in 1..Len(doc) :
    (doc[n].kind = "request" /\ doc[n].withItems /\ doc[n].items = <<>>) =>
      \A i \in Iters :
        /\ (pc[i] = "run" /\ ip[i] = n) => ph[i] = "next"
        /\ CountNamed(reports[i], doc[n].name) = 0
\* Interpolator::resolve on a string that is one placeholder of a
\* top-level key, or holds no placeholder: the text of the value at the
\* key, or the string itself
resolve(c, s) ==
  IF \E k \in DOMAIN c : s = Placeholder(k)
    THEN c[CHOOSE k \in DOMAIN c : s = Placeholder(k)].text
    ELSE s

\* C22 as stated: Assign stores under its key the value obtained by
\* resolving the placeholders of value against the context at execution
\* time, not the literal template.
C22_AssignResolved ==
  \A i \in Iters : \A p \in 1..Len(trace[i]) :
    LET a == benchmark[trace[i][p].idx]
    IN  a.kind = "assign" =>
          /\ a.key \in DOMAIN trace[i][p].wrote
          /\ trace[i][p].wrote[a.key] = Str(resolve(trace[i][p].seen, a.value.text))
          /\ (pc[i] = "run" /\ p = Len(trace[i]) /\ ip[i] = trace[i][p].idx + 1) =>
                context[i][a.key] = Str(resolve(trace[i][p].seen, a.value.text))
\* Keys of an object and the value it holds at a key
KeysOf(v) == {v.o[p].k : p \in 1..Len(v.o)}
ValueAt(v, k) == (CHOOSE p \in 1..Len(v.o) : v.o[p].k = k)

RECURSIVE StructurallyEqual(_, _)
\* The literal and the held value are equal after coercion: a boolean or a
\* number against the text standing for it, a string against the rendered
\* text, an array against an array of the same length with equal elements,
\* an object against an object with the same keys and equal values
StructurallyEqual(lhs, held) ==
  CASE lhs.t = "bool" -> Rendered(held) = to_string(lhs)
    [] lhs.t = "num" -> Rendered(held) = to_string(lhs)
    [] lhs.t = "str" -> Rendered(held) = lhs.s
    [] lhs.t = "arr" ->
         /\ held.t = "arr"
         /\ Len(held.a) = Len(lhs.a)
         /\ \A p \in 1..Len(lhs.a) : p <= Len(held.a) =>
               StructurallyEqual(lhs.a[p], held.a[p])
    [] lhs.t = "obj" ->
         /\ held.t = "obj"
         /\ KeysOf(held) = KeysOf(lhs)
         /\ \A p \in 1..Len(lhs.o) : lhs.o[p].k \in KeysOf(held) =>
               StructurallyEqual(lhs.o[p].v, held.o[ValueAt(held, lhs.o[p].k)].v)

\* C23 as stated: the assertion lets the run continue exactly when the
\* value the context holds at the key is structurally equal to the literal
\* after coercion, arrays and objects compared in full (another length or
\* another key set is a mismatch); otherwise the run is aborted.
C23_AssertStructural ==
  assertCall.state \in {"passed", "panicked"} =>
    (assertCall.state = "passed"
       <=> StructurallyEqual(assertCall.value, assertCall.held))
\* C28 as stated: the histogram accepts every duration whose value
\* duration_ms * 1000 lies within [1, 3_600_000_000] microseconds, that is
\* a duration from one microsecond up to 3_600_000 ms: over reports with
\* such durations compute_stats never fails and counts each of them.
C28_HistogramBounds ==
  (\A p \in 1..Len(statsCall.sub_reports) :
     /\ Micros(statsCall.sub_reports[p].duration) >= 1
     /\ statsCall.sub_reports[p].duration <= 60 * 60 * 1000) =>
    /\ statsCall.state # "panicked"
    /\ statsCall.state = "returned" =>
         statsCall.stats.hist = Len(statsCall.sub_reports)
\* C27 as stated: every Config the loader produces has
\* 0 < concurrency <= iterations: a concurrency above the iterations is
\* refused, and the defaults (a setting left out or negative) never give a
\* concurrency above the iterations.
C27_ConcurrencyRange ==
  /\ configCall.state = "loaded" =>
       /\ 0 < configCall.config.concurrency
       /\ configCall.config.concurrency <= configCall.config.iterations
  /\ configCall.state = "refused" =>
       /\ configCall.concurrency.some
       /\ configCall.concurrency.value >
            read_i64_configuration(configCall.iterations, NITERATIONS)
RECURSIVE RangeValues(_, _, _)
\* start, start + step, .. not beyond stop
RangeValues(start, stop, step) ==
  IF start > stop THEN <<>>
  ELSE <<start>> \o RangeValues(start + step, stop, step)

\* C29 as stated: a request over the range {start, stop, step}, step >= 1
\* (1 when left out), sends one sub-request per value start, start + step,
\* .. not beyond stop, each with that value put into the context, and
\* pushes one report per value; the element list the loader builds has as
\* many elements as sub-requests are sent.
C29_RangeRequest ==
  LET values == RangeValues(rangeCall.start, rangeCall.stop, StepOf(rangeCall))
  IN  (rangeCall.state # "idle" /\ StepOf(rangeCall) >= 1) =>
        /\ rangeCall.state \notin {"refused", "panicked"}
        /\ rangeCall.state = "done" =>
             /\ rangeCall.sent = Len(values)
             /\ rangeCall.reports = Len(values)
             /\ Len(rangeCall.injected) = Len(values)
        /\ (rangeCall.state = "done" /\ rangeCall.loader = "loaded") =>
             Len(rangeCall.items) = rangeCall.sent
\* C30 as stated: the loader tracks the paths being loaded, so a file is
\* never entered again while it is being loaded and the recursion never
\* runs out of stack: a cycle of includes ends the load with an error.
C30_IncludeCycle ==
  /\ \A p, q \in 1..Len(includeCall.stack) :
       p # q => includeCall.stack[p].path # includeCall.stack[q].path
  /\ includeCall.state # "overflow"
\* C26 as stated: for every iterations N >= 0 with the concurrency derived
\* from it, a run whose actions all terminate (here a plan of one assign)
\* eventually completes: all N iterations were started and finished and
\* execute returned their N report vectors.
C26_RunCompletes ==
  (doc = PlanSet /\ ~config.report
     /\ config.concurrency = config.iterations) =>
    <>(/\ runState = "done"
       /\ Len(results) = config.iterations
       /\ \A i \in Iters : pc[i] = "done")
====
